---- MODULE Spec2Model ----
(***************************************************************************)
(* Model of gl_textures (main.go): one-time GPU pipeline setup, the frame  *)
(* loop, the GLFW key callback and the deferred teardown of main.          *)
(*                                                                         *)
(* The OpenGL / GLFW side is modelled as the state those libraries keep    *)
(* for the calls main.go makes (bindings, link status, uniform values).    *)
(* Outcomes decided outside the program (GLFW/GL initialisation, image     *)
(* decoding, shader compilation, program linking, whether the linker keeps *)
(* an unreferenced uniform active, the input events of a poll) are         *)
(* nondeterministic inputs.                                                *)
(*                                                                         *)
(* spinCount is a float64 in the source; here it is a fixed-point integer  *)
(* counted in units of 1/SpinScale, so 0.0005 is SpinIncrement and 1.0 is  *)
(* SpinScale.  A rotation angle is kept in the same unit, times pi.        *)
(***************************************************************************)
EXTENDS Integers, Sequences, FiniteSets, TLC

\* ---------------------------------------------------------------- bounds
MaxFrames == 3
MaxEvents == 2

\* ------------------------------------------------------ program constants
SpinScale == 10000
SpinIncrement == 5
WindowWidth == 640
WindowHeight == 480
VertexFloats == 16
FloatBytes == 4
ElementCount == 4
UshortBytes == 2
AttribComponents == 2

\* --------------------------------------------------------------- matrices
\* glam matrices, kept symbolically by constructor and arguments
Identity == [kind |-> "identity", arg |-> <<>>]

Rotation(angle, axis) == [kind |-> "rotation", arg |-> <<angle, axis>>]

Perspective(fov, aspect, near, far) ==
    [kind |-> "perspective", arg |-> <<fov, aspect, near, far>>]

LookAt(eye, center, up) == [kind |-> "lookAt", arg |-> <<eye, center, up>>]

\* value of a matrix uniform that no call has written
NoMatrix == [kind |-> "unset", arg |-> <<>>]

ZAxis == <<0, 0, 1>>

\* ------------------------------------------------------------- resources
Resources ==
    {"glfw", "window", "vao", "vbo", "elementBuffer", "texture1", "texture2",
     "vertexShader", "fragmentShader", "shaderProgram"}

Textures == {"texture1", "texture2"}

Buffers == {"vbo", "elementBuffer"}

\* uniforms declared by the two shader sources
MatrixUniforms == {"model", "view", "projection"}

SamplerUniforms == {"tex1", "tex2"}

\* sampler value of a uniform that does not exist in the linked program
NoSampler == -1

Keys == {"KeyEscape", "KeyQ", "KeyR", "KeyA"}

Actions == {"Press", "Release", "Repeat"}

VARIABLES
    pc,                 \* position of main
    failure,            \* the startup step that failed, "none" if none did
    exitCode,           \* -1 while running, 0 clean exit, 2 panic exit
    rotate,             \* package variable rotate
    shouldClose,        \* the window's should-close flag
    spinCount,          \* local spinCount of main, in 1/SpinScale
    modelMat,           \* local modelMat of main
    projectionMat,      \* local projectionMat of main
    created,            \* resources created so far
    released,           \* number of times each resource was released
    defers,             \* stack of deferred calls of main, last is run first
    activeTexture,      \* GL: active texture unit
    boundTexture,       \* GL: texture bound to TEXTURE_2D of each unit
    texImage,           \* GL: textures holding an uploaded image
    texFilter,          \* GL: min/mag filter of each texture object
    vaoBound,           \* GL: bound vertex array
    arrayBuffer,        \* GL: buffer bound to ARRAY_BUFFER
    elementArrayBuffer, \* GL: buffer bound to ELEMENT_ARRAY_BUFFER
    bufferSize,         \* GL: byte size of each buffer's data store
    attribs,            \* GL: vertex attribute arrays configured
    linkStatus,         \* GL: "unlinked", "ok" or "failed"
    tex2Active,         \* GL: the linker kept the unreferenced tex2 active
    programInUse,       \* GL: shaderProgram is the current program
    samplerVal,         \* GL: value of each sampler uniform
    matUniform,         \* GL: value of each matrix uniform
    clearColor,         \* GL: clear colour
    locationsResolved,  \* number of attribute/uniform lookups made
    pushed,             \* matrix last passed to UniformMatrix4fv, per name
    projPushes,         \* number of UniformMatrix4fv calls for projection
    frame,              \* number of loop iterations started
    enabledTicks,       \* number of iterations whose rotate branch ran
    tickEnabled,        \* the rotate branch ran in the current iteration
    draws,              \* number of DrawElements calls
    swaps,              \* number of SwapBuffers calls
    lastDraw,           \* arguments and bindings of the last DrawElements
    ops,                \* calls of the current iteration, in order
    pollLog,            \* events handled by the PollEvents call of the
                        \* current iteration, in order, kept up to the loop test
    rotAtPollStart,     \* rotate when the latest PollEvents was entered
    lastPollToggles,    \* number of R presses the latest PollEvents handled
    closeCause          \* the event that set the should-close flag

progVars == <<pc, failure, exitCode, rotate, shouldClose, spinCount,
              modelMat, projectionMat>>

resVars == <<created, released, defers>>

glVars == <<activeTexture, boundTexture, texImage, texFilter, vaoBound,
            arrayBuffer, elementArrayBuffer, bufferSize, attribs, linkStatus,
            tex2Active, programInUse, samplerVal, matUniform, clearColor>>

histVars == <<locationsResolved, pushed, projPushes, frame, enabledTicks,
              tickEnabled, draws, swaps, lastDraw, ops, pollLog,
              rotAtPollStart, lastPollToggles, closeCause>>

vars == <<progVars, resVars, glVars, histVars>>

NoDraw == [mode |-> "none", count |-> 0, vao |-> "none", elements |-> "none",
           unit0 |-> "none", unit1 |-> "none", model |-> NoMatrix]

NoAttrib == [size |-> 0, stride |-> 0, offset |-> 0, buffer |-> "none",
             vao |-> "none", enabled |-> FALSE]

DefaultFilter == [min |-> "default", mag |-> "default"]

Init ==
    /\ pc = "glInit"
    /\ failure = "none"
    /\ exitCode = -1
    /\ rotate = TRUE
    /\ shouldClose = FALSE
    /\ spinCount = 0
    /\ modelMat = NoMatrix
    /\ projectionMat = NoMatrix
    /\ created = {}
    /\ released = [r \in Resources |-> 0]
    /\ defers = <<>>
    /\ activeTexture = 0
    /\ boundTexture = [u \in 0..1 |-> "none"]
    /\ texImage = {}
    /\ texFilter = [t \in Textures \cup {"none"} |-> DefaultFilter]
    /\ vaoBound = "none"
    /\ arrayBuffer = "none"
    /\ elementArrayBuffer = "none"
    /\ bufferSize = [b \in Buffers |-> 0]
    /\ attribs = [a \in {"position", "textureCoord"} |-> NoAttrib]
    /\ linkStatus = "unlinked"
    /\ tex2Active = FALSE
    /\ programInUse = FALSE
    /\ samplerVal = [s \in SamplerUniforms |-> NoSampler]
    /\ matUniform = [m \in MatrixUniforms |-> NoMatrix]
    /\ clearColor = <<0, 0, 0, 0>>
    /\ locationsResolved = 0
    /\ pushed = [m \in MatrixUniforms |-> NoMatrix]
    /\ projPushes = 0
    /\ frame = 0
    /\ enabledTicks = 0
    /\ tickEnabled = FALSE
    /\ draws = 0
    /\ swaps = 0
    /\ lastDraw = NoDraw
    /\ ops = <<>>
    /\ pollLog = <<>>
    /\ rotAtPollStart = TRUE
    /\ lastPollToggles = 0
    /\ closeCause = "none"

\* panic(err): main stops where it is and its deferred calls run
Panic(step) ==
    /\ pc' = "unwind"
    /\ failure' = step

\* ------------------------------------------------------------ one-time setup

\* glInit() and main's check of its result, up to defer glExit()
GlInit ==
    /\ pc = "glInit"
    /\ \E outcome \in {"glfwInit", "window", "glInit", "ok"} :
         /\ created' = CASE outcome = "glfwInit" -> created
                         [] outcome = "window" -> created \cup {"glfw"}
                         [] OTHER -> created \cup {"glfw", "window"}
         /\ IF outcome = "ok"
              THEN /\ pc' = "geometry"
                   /\ defers' = Append(defers, "glExit")
                   /\ UNCHANGED failure
              ELSE /\ Panic(outcome)
                   /\ UNCHANGED defers
    /\ UNCHANGED <<exitCode, rotate, shouldClose, spinCount, modelMat,
                   projectionMat, released, glVars, histVars>>

\* variant: the index buffer is bound and filled through ARRAY_BUFFER, taking
\* the vertex buffer's place there and leaving ELEMENT_ARRAY_BUFFER empty
UploadGeometry_WrongTarget ==
    /\ pc = "geometry"
    /\ created' = created \cup {"vao", "vbo", "elementBuffer"}
    /\ vaoBound' = "vao"
    /\ arrayBuffer' = "elementBuffer"
    /\ elementArrayBuffer' = elementArrayBuffer
    /\ bufferSize' = [bufferSize EXCEPT !["vbo"] = VertexFloats * FloatBytes,
                                        ![arrayBuffer'] = ElementCount * UshortBytes]
    /\ defers' = defers \o <<"vao", "vbo", "elementBuffer">>
    /\ pc' = "texture1"
    /\ UNCHANGED <<failure, exitCode, rotate, shouldClose, spinCount, modelMat,
                   projectionMat, released, activeTexture, boundTexture,
                   texImage, texFilter, attribs, linkStatus, tex2Active,
                   programInUse, samplerVal, matUniform, clearColor, histVars>>

\* vertex array, vertex buffer and index buffer: creation, upload, defers
UploadGeometry ==
    /\ pc = "geometry"
    /\ created' = created \cup {"vao", "vbo", "elementBuffer"}
    /\ vaoBound' = "vao"
    /\ arrayBuffer' = "vbo"
    /\ elementArrayBuffer' = "elementBuffer"
    /\ bufferSize' = [bufferSize EXCEPT ![arrayBuffer'] = VertexFloats * FloatBytes,
                                        ![elementArrayBuffer'] = ElementCount * UshortBytes]
    /\ defers' = defers \o <<"vao", "vbo", "elementBuffer">>
    /\ pc' = "texture1"
    /\ UNCHANGED <<failure, exitCode, rotate, shouldClose, spinCount, modelMat,
                   projectionMat, released, activeTexture, boundTexture,
                   texImage, texFilter, attribs, linkStatus, tex2Active,
                   programInUse, samplerVal, matUniform, clearColor, histVars>>

\* texture unit of the first load: gl.TEXTURE0
Texture1Unit == 0

\* variant: the second load also targets the first unit
Texture2Unit_Same == Texture1Unit

\* texture unit of the second load: gl.TEXTURE1
Texture2Unit == 1

\* variant: the filter calls land on the texture of unit 0 whatever unit is
\* active
LinearFilters_Unit0(filters, bound, unit) ==
    [filters EXCEPT ![bound[0]] = [min |-> "linear", mag |-> "linear"]]

\* gl.TexParameteri(TEXTURE_2D, MIN_FILTER/MAG_FILTER, LINEAR): applies to the
\* texture bound to TEXTURE_2D of the active unit
LinearFilters(filters, bound, unit) ==
    [filters EXCEPT ![bound[unit]] = [min |-> "linear", mag |-> "linear"]]

\* loadTextureFromImage(filename, unit), main's check of its result, the
\* deferred Delete and the two TexParameteri calls that follow it
LoadTexture(texture, unit, step, next) ==
    /\ created' = created \cup {texture}
    /\ \E imageOK \in BOOLEAN :
         IF imageOK
           THEN /\ activeTexture' = unit
                /\ boundTexture' = [boundTexture EXCEPT ![unit] = texture]
                /\ texImage' = texImage \cup {texture}
                /\ defers' = Append(defers, texture)
                /\ texFilter' = LinearFilters(texFilter, boundTexture', activeTexture')
                /\ pc' = next
                /\ UNCHANGED failure
           ELSE /\ Panic(step)
                /\ UNCHANGED <<activeTexture, boundTexture, texImage, defers,
                               texFilter>>
    /\ UNCHANGED <<exitCode, rotate, shouldClose, spinCount, modelMat,
                   projectionMat, released, vaoBound, arrayBuffer,
                   elementArrayBuffer, bufferSize, attribs, linkStatus,
                   tex2Active, programInUse, samplerVal, matUniform,
                   clearColor, histVars>>

LoadTexture1 ==
    /\ pc = "texture1"
    /\ LoadTexture("texture1", Texture1Unit, "image1", "texture2")

LoadTexture2 ==
    /\ pc = "texture2"
    /\ LoadTexture("texture2", Texture2Unit, "image2", "vertexShader")

\* loadShader(type, source), main's check of its result and the deferred Delete
LoadShader(shader, step, next) ==
    /\ created' = created \cup {shader}
    /\ \E compiled \in BOOLEAN :
         IF compiled
           THEN /\ defers' = Append(defers, shader)
                /\ pc' = next
                /\ UNCHANGED failure
           ELSE /\ Panic(step)
                /\ UNCHANGED defers
    /\ UNCHANGED <<exitCode, rotate, shouldClose, spinCount, modelMat,
                   projectionMat, released, glVars, histVars>>

LoadVertexShader ==
    /\ pc = "vertexShader"
    /\ LoadShader("vertexShader", "compileVS", "fragmentShader")

LoadFragmentShader ==
    /\ pc = "fragmentShader"
    /\ LoadShader("fragmentShader", "compileFS", "program")

\* uniforms the linked program keeps: those the shader code reads, and tex2
\* (declared, never read) when the linker does not eliminate it
ActiveUniforms(keepTex2) ==
    {"model", "view", "projection", "tex1"} \cup
        (IF keepTex2 THEN {"tex2"} ELSE {})

\* CreateProgram, AttachShader x2, BindFragDataLocation, Link, Use and the
\* deferred Delete; the link status is not read
BuildProgram ==
    /\ pc = "program"
    /\ created' = created \cup {"shaderProgram"}
    /\ \E linked \in BOOLEAN, keepTex2 \in BOOLEAN :
         /\ linkStatus' = IF linked THEN "ok" ELSE "failed"
         /\ tex2Active' = (linked /\ keepTex2)
         /\ programInUse' = linked
         /\ samplerVal' = [s \in SamplerUniforms |->
                             IF linked /\ s \in ActiveUniforms(keepTex2)
                               THEN 0 ELSE NoSampler]
    /\ defers' = Append(defers, "shaderProgram")
    /\ pc' = "attribs"
    /\ UNCHANGED <<failure, exitCode, rotate, shouldClose, spinCount, modelMat,
                   projectionMat, released, activeTexture, boundTexture,
                   texImage, texFilter, vaoBound, arrayBuffer,
                   elementArrayBuffer, bufferSize, attribs, matUniform,
                   clearColor, histVars>>

\* gl.Program.GetAttribLocation / GetUniformLocation: the name itself when the
\* program linked and the name is active in it, "notFound" (-1) otherwise
GetAttribLocation(name) ==
    IF linkStatus = "ok" THEN name ELSE "notFound"

GetUniformLocation(name) ==
    IF linkStatus = "ok" /\ name \in ActiveUniforms(tex2Active)
      THEN name ELSE "notFound"

\* Uniform1i on a location: a silent no-op on "notFound"
Uniform1i(samplers, loc, value) ==
    IF loc = "notFound" THEN samplers ELSE [samplers EXCEPT ![loc] = value]

\* UniformMatrix4fv on a location: a silent no-op on "notFound"
UniformMatrix4fv(uniforms, loc, mat) ==
    IF loc = "notFound" THEN uniforms ELSE [uniforms EXCEPT ![loc] = mat]

\* AttribPointer + EnableArray on a location, recorded with the vertex array
\* and ARRAY_BUFFER binding current at the call; no effect on "notFound"
AttribPointer(arrays, loc, size, stride, offset) ==
    IF loc = "notFound"
      THEN arrays
      ELSE [arrays EXCEPT ![loc] = [size |-> size, stride |-> stride,
                                    offset |-> offset, buffer |-> arrayBuffer,
                                    vao |-> vaoBound, enabled |-> TRUE]]

\* position and textureCoord attribute set-up
ConfigureAttribs ==
    /\ pc = "attribs"
    /\ attribs' = AttribPointer(
                    AttribPointer(attribs, GetAttribLocation("position"),
                                  AttribComponents, 4 * FloatBytes, 0),
                    GetAttribLocation("textureCoord"),
                    AttribComponents, 4 * FloatBytes, 2 * FloatBytes)
    /\ locationsResolved' = locationsResolved + 2
    /\ pc' = "samplers"
    /\ UNCHANGED <<failure, exitCode, rotate, shouldClose, spinCount, modelMat,
                   projectionMat, resVars, activeTexture, boundTexture,
                   texImage, texFilter, vaoBound, arrayBuffer,
                   elementArrayBuffer, bufferSize, linkStatus, tex2Active,
                   programInUse, samplerVal, matUniform, clearColor, pushed,
                   projPushes, frame, enabledTicks, tickEnabled, draws, swaps,
                   lastDraw, ops, pollLog, rotAtPollStart, lastPollToggles,
                   closeCause>>

\* Uniform1i(0) on tex1 and Uniform1i(1) on tex2
SetSamplers ==
    /\ pc = "samplers"
    /\ samplerVal' = Uniform1i(Uniform1i(samplerVal, GetUniformLocation("tex1"), 0),
                               GetUniformLocation("tex2"), 1)
    /\ locationsResolved' = locationsResolved + 2
    /\ pc' = "transform"
    /\ UNCHANGED <<failure, exitCode, rotate, shouldClose, spinCount, modelMat,
                   projectionMat, resVars, activeTexture, boundTexture,
                   texImage, texFilter, vaoBound, arrayBuffer,
                   elementArrayBuffer, bufferSize, attribs, linkStatus,
                   tex2Active, programInUse, matUniform, clearColor, pushed,
                   projPushes, frame, enabledTicks, tickEnabled, draws, swaps,
                   lastDraw, ops, pollLog, rotAtPollStart, lastPollToggles,
                   closeCause>>

\* the projection main computes; 640/480 is a division of integer constants
ProjectionMatrix == Perspective(45, WindowWidth \div WindowHeight, 1, 10)

\* modelMat, projectionMat, the one push of projection, spinCount
InitTransform ==
    /\ pc = "transform"
    /\ modelMat' = Identity
    /\ projectionMat' = ProjectionMatrix
    /\ matUniform' = UniformMatrix4fv(matUniform, GetUniformLocation("projection"),
                                      projectionMat')
    /\ pushed' = [pushed EXCEPT !["projection"] = projectionMat']
    /\ projPushes' = projPushes + 1
    /\ locationsResolved' = locationsResolved + 1
    /\ spinCount' = 0
    /\ pc' = "loop"
    /\ UNCHANGED <<failure, exitCode, rotate, shouldClose, resVars,
                   activeTexture, boundTexture, texImage, texFilter, vaoBound,
                   arrayBuffer, elementArrayBuffer, bufferSize, attribs,
                   linkStatus, tex2Active, programInUse, samplerVal,
                   clearColor, frame, enabledTicks, tickEnabled, draws, swaps,
                   lastDraw, ops, pollLog, rotAtPollStart, lastPollToggles,
                   closeCause>>

\* ------------------------------------------------------------ key callback

\* variant: the R key switches rotation off instead of flipping it
Toggle_Off(rot) == FALSE

\* rotate = !rotate
Toggle(rot) == ~rot

\* variant: every key press requests the close, not only Escape and Q
KeyCallbackClose_AnyPress(key, action, close) ==
    IF action = "Press" THEN TRUE ELSE close

\* keyCallback's effect on the should-close flag
KeyCallbackClose(key, action, close) ==
    IF action = "Press" /\ key \in {"KeyEscape", "KeyQ"} THEN TRUE ELSE close

\* variant: the R key toggles on every action, release and repeat included
KeyCallbackRotate_AnyAction(key, action, rot) ==
    IF key = "KeyR" THEN Toggle(rot) ELSE rot

\* keyCallback's effect on rotate
KeyCallbackRotate(key, action, rot) ==
    IF action = "Press" /\ key = "KeyR" THEN Toggle(rot) ELSE rot

\* an entry of pollLog: the event and the state it was delivered in
LogEntry(key, action) ==
    [key |-> key, action |-> action, rotate |-> rotate,
     shouldClose |-> shouldClose, spinCount |-> spinCount]

\* a logged event that is a press of a quit key, of the toggle key
IsQuitPress(e) == e.action = "Press" /\ e.key \in {"KeyEscape", "KeyQ"}

IsTogglePress(e) == e.action = "Press" /\ e.key = "KeyR"

\* number of toggle-rotation presses in a poll's log
TogglesIn(log) ==
    Cardinality({i \in 1..Len(log) : IsTogglePress(log[i])})

\* ---------------------------------------------------------------- frame loop

\* variant: the loop test ignores the should-close flag
LoopCondition_Ignored(close) == TRUE

\* for !window.ShouldClose()
LoopCondition(close) == ~close

\* the loop test: another iteration, or main returns and its defers run; the
\* log of the poll that just returned is dropped here
LoopCheck ==
    /\ pc = "loop"
    /\ IF LoopCondition(shouldClose)
         THEN /\ frame < MaxFrames
              /\ frame' = frame + 1
              /\ ops' = <<>>
              /\ tickEnabled' = FALSE
              /\ pc' = "clear"
         ELSE /\ pc' = "unwind"
              /\ UNCHANGED <<frame, ops, tickEnabled>>
    /\ pollLog' = <<>>
    /\ UNCHANGED <<failure, exitCode, rotate, shouldClose, spinCount, modelMat,
                   projectionMat, resVars, glVars, locationsResolved, pushed,
                   projPushes, enabledTicks, draws, swaps, lastDraw,
                   rotAtPollStart, lastPollToggles, closeCause>>

\* gl.ClearColor(0, 0, 0, 1); gl.Clear(COLOR_BUFFER_BIT)
Clear ==
    /\ pc = "clear"
    /\ clearColor' = <<0, 0, 0, 1>>
    /\ ops' = Append(ops, "clear")
    /\ pc' = "tick"
    /\ UNCHANGED <<failure, exitCode, rotate, shouldClose, spinCount, modelMat,
                   projectionMat, resVars, activeTexture, boundTexture,
                   texImage, texFilter, vaoBound, arrayBuffer,
                   elementArrayBuffer, bufferSize, attribs, linkStatus,
                   tex2Active, programInUse, samplerVal, matUniform,
                   locationsResolved, pushed, projPushes, frame, enabledTicks,
                   tickEnabled, draws, swaps, lastDraw, pollLog,
                   rotAtPollStart, lastPollToggles,
                   closeCause>>

\* variant: the accumulator is advanced before the model matrix is computed
ModelForTick_Advanced(spin) == Rotation(spin + SpinIncrement, ZAxis)

\* modelMat = glam.Rotation(float32(spinCount*math.Pi), Vec3{0, 0, 1})
ModelForTick(spin) == Rotation(spin, ZAxis)

\* variant: the accumulator advances by two increments
NextSpin_Double(spin) == spin + 2 * SpinIncrement

\* spinCount += 0.0005
NextSpin(spin) == spin + SpinIncrement

\* variant: the accumulator advances in every iteration, rotation enabled or
\* not; only the model matrix is guarded by rotate
Tick_SpinAlways ==
    /\ pc = "tick"
    /\ IF rotate
         THEN /\ modelMat' = ModelForTick(spinCount)
              /\ enabledTicks' = enabledTicks + 1
              /\ tickEnabled' = TRUE
         ELSE UNCHANGED <<modelMat, enabledTicks, tickEnabled>>
    /\ spinCount' = NextSpin(spinCount)
    /\ ops' = Append(ops, "tick")
    /\ pc' = "pushModel"
    /\ UNCHANGED <<failure, exitCode, rotate, shouldClose, projectionMat,
                   resVars, glVars, locationsResolved, pushed, projPushes,
                   frame, draws, swaps, lastDraw, pollLog, rotAtPollStart,
                   lastPollToggles, closeCause>>

\* if rotate { modelMat = ...; spinCount += 0.0005 }
Tick ==
    /\ pc = "tick"
    /\ IF rotate
         THEN /\ modelMat' = ModelForTick(spinCount)
              /\ spinCount' = NextSpin(spinCount)
              /\ enabledTicks' = enabledTicks + 1
              /\ tickEnabled' = TRUE
         ELSE UNCHANGED <<modelMat, spinCount, enabledTicks, tickEnabled>>
    /\ ops' = Append(ops, "tick")
    /\ pc' = "pushModel"
    /\ UNCHANGED <<failure, exitCode, rotate, shouldClose, projectionMat,
                   resVars, glVars, locationsResolved, pushed, projPushes,
                   frame, draws, swaps, lastDraw, pollLog, rotAtPollStart,
                   lastPollToggles, closeCause>>

\* GetUniformLocation("model").UniformMatrix4fv(false, modelMat)
PushModel ==
    /\ pc = "pushModel"
    /\ matUniform' = UniformMatrix4fv(matUniform, GetUniformLocation("model"),
                                      modelMat)
    /\ pushed' = [pushed EXCEPT !["model"] = modelMat]
    /\ locationsResolved' = locationsResolved + 1
    /\ ops' = Append(ops, "pushModel")
    /\ pc' = "pushView"
    /\ UNCHANGED <<failure, exitCode, rotate, shouldClose, spinCount, modelMat,
                   projectionMat, resVars, activeTexture, boundTexture,
                   texImage, texFilter, vaoBound, arrayBuffer,
                   elementArrayBuffer, bufferSize, attribs, linkStatus,
                   tex2Active, programInUse, samplerVal, clearColor,
                   projPushes, frame, enabledTicks, tickEnabled, draws, swaps,
                   lastDraw, pollLog, rotAtPollStart, lastPollToggles,
                   closeCause>>

\* viewMat := glam.LookAt(...)
ViewMatrix == LookAt(<<1, 0, 1>>, <<0, 0, 0>>, <<0, 0, 1>>)

\* variant: the projection is pushed again in every iteration
PushView_WithProjection ==
    /\ pc = "pushView"
    /\ matUniform' = UniformMatrix4fv(
                       UniformMatrix4fv(matUniform, GetUniformLocation("view"),
                                        ViewMatrix),
                       GetUniformLocation("projection"), projectionMat)
    /\ pushed' = [pushed EXCEPT !["view"] = ViewMatrix,
                                !["projection"] = projectionMat]
    /\ projPushes' = projPushes + 1
    /\ locationsResolved' = locationsResolved + 2
    /\ ops' = Append(ops, "pushView")
    /\ pc' = "draw"
    /\ UNCHANGED <<failure, exitCode, rotate, shouldClose, spinCount, modelMat,
                   projectionMat, resVars, activeTexture, boundTexture,
                   texImage, texFilter, vaoBound, arrayBuffer,
                   elementArrayBuffer, bufferSize, attribs, linkStatus,
                   tex2Active, programInUse, samplerVal, clearColor, frame,
                   enabledTicks, tickEnabled, draws, swaps, lastDraw, pollLog,
                   rotAtPollStart, lastPollToggles,
                   closeCause>>

\* GetUniformLocation("view").UniformMatrix4fv(false, viewMat)
PushView ==
    /\ pc = "pushView"
    /\ matUniform' = UniformMatrix4fv(matUniform, GetUniformLocation("view"),
                                      ViewMatrix)
    /\ pushed' = [pushed EXCEPT !["view"] = ViewMatrix]
    /\ locationsResolved' = locationsResolved + 1
    /\ ops' = Append(ops, "pushView")
    /\ pc' = "draw"
    /\ UNCHANGED <<failure, exitCode, rotate, shouldClose, spinCount, modelMat,
                   projectionMat, resVars, activeTexture, boundTexture,
                   texImage, texFilter, vaoBound, arrayBuffer,
                   elementArrayBuffer, bufferSize, attribs, linkStatus,
                   tex2Active, programInUse, samplerVal, clearColor,
                   projPushes, frame, enabledTicks, tickEnabled, draws, swaps,
                   lastDraw, pollLog, rotAtPollStart, lastPollToggles,
                   closeCause>>

\* variant: the frame is drawn but never presented, main goes on to the poll
DrawElements_NoSwap ==
    /\ pc = "draw"
    /\ draws' = draws + 1
    /\ lastDraw' = [mode |-> "TRIANGLE_STRIP", count |-> ElementCount,
                    vao |-> vaoBound, elements |-> elementArrayBuffer,
                    unit0 |-> boundTexture[0], unit1 |-> boundTexture[1],
                    model |-> pushed["model"]]
    /\ ops' = Append(ops, "draw")
    /\ pc' = "poll"
    /\ UNCHANGED <<failure, exitCode, rotate, shouldClose, spinCount, modelMat,
                   projectionMat, resVars, glVars, locationsResolved, pushed,
                   projPushes, frame, enabledTicks, tickEnabled, swaps,
                   pollLog, rotAtPollStart, lastPollToggles,
                   closeCause>>

\* gl.DrawElements(TRIANGLE_STRIP, 4, UNSIGNED_SHORT, 0)
DrawElements ==
    /\ pc = "draw"
    /\ draws' = draws + 1
    /\ lastDraw' = [mode |-> "TRIANGLE_STRIP", count |-> ElementCount,
                    vao |-> vaoBound, elements |-> elementArrayBuffer,
                    unit0 |-> boundTexture[0], unit1 |-> boundTexture[1],
                    model |-> pushed["model"]]
    /\ ops' = Append(ops, "draw")
    /\ pc' = "swap"
    /\ UNCHANGED <<failure, exitCode, rotate, shouldClose, spinCount, modelMat,
                   projectionMat, resVars, glVars, locationsResolved, pushed,
                   projPushes, frame, enabledTicks, tickEnabled, swaps,
                   pollLog, rotAtPollStart, lastPollToggles,
                   closeCause>>

\* window.SwapBuffers(), then glfw.PollEvents() is entered
SwapBuffers ==
    /\ pc = "swap"
    /\ swaps' = swaps + 1
    /\ ops' = Append(ops, "swap")
    /\ rotAtPollStart' = rotate
    /\ pc' = "poll"
    /\ UNCHANGED <<failure, exitCode, rotate, shouldClose, spinCount, modelMat,
                   projectionMat, resVars, glVars, locationsResolved, pushed,
                   projPushes, frame, enabledTicks, tickEnabled, draws,
                   lastDraw, pollLog, lastPollToggles, closeCause>>

\* inside PollEvents: one key event is delivered to keyCallback
KeyCallback ==
    /\ pc = "poll"
    /\ Len(pollLog) < MaxEvents
    /\ \E key \in Keys, action \in Actions :
         /\ shouldClose' = KeyCallbackClose(key, action, shouldClose)
         /\ rotate' = KeyCallbackRotate(key, action, rotate)
         /\ pollLog' = Append(pollLog, LogEntry(key, action))
         /\ closeCause' = IF shouldClose' /\ ~shouldClose THEN key
                                                          ELSE closeCause
    /\ UNCHANGED <<pc, failure, exitCode, spinCount, modelMat, projectionMat,
                   resVars, glVars, locationsResolved, pushed, projPushes,
                   frame, enabledTicks, tickEnabled, draws, swaps, lastDraw,
                   ops, rotAtPollStart, lastPollToggles>>

\* inside PollEvents: the window manager's close request sets the flag
CloseSignal ==
    /\ pc = "poll"
    /\ Len(pollLog) < MaxEvents
    /\ shouldClose' = TRUE
    /\ pollLog' = Append(pollLog, LogEntry("none", "Close"))
    /\ closeCause' = IF shouldClose THEN closeCause ELSE "Close"
    /\ UNCHANGED <<pc, failure, exitCode, rotate, spinCount, modelMat,
                   projectionMat, resVars, glVars, locationsResolved, pushed,
                   projPushes, frame, enabledTicks, tickEnabled, draws, swaps,
                   lastDraw, ops, rotAtPollStart, lastPollToggles>>

\* glfw.PollEvents() returns
PollReturn ==
    /\ pc = "poll"
    /\ ops' = Append(ops, "poll")
    /\ lastPollToggles' = TogglesIn(pollLog)
    /\ pc' = "loop"
    /\ UNCHANGED <<failure, exitCode, rotate, shouldClose, spinCount, modelMat,
                   projectionMat, resVars, glVars, locationsResolved, pushed,
                   projPushes, frame, enabledTicks, tickEnabled, draws, swaps,
                   lastDraw, pollLog, rotAtPollStart, closeCause>>

\* ------------------------------------------------------------------ teardown

\* what one deferred call releases: glExit terminates GLFW, which destroys the
\* window and its context; every other deferred call deletes one GL object
ReleasedBy(call) ==
    IF call = "glExit" THEN {"glfw", "window"} \cap created ELSE {call}

\* variant: the deferred calls run in the order they were registered
RunDeferred_Fifo ==
    /\ pc = "unwind"
    /\ defers # <<>>
    /\ LET call == defers[1] IN
         /\ released' = [r \in Resources |->
                           IF r \in ReleasedBy(call) THEN released[r] + 1
                                                     ELSE released[r]]
         /\ boundTexture' = [u \in 0..1 |->
                               IF boundTexture[u] = call THEN "none"
                                                         ELSE boundTexture[u]]
         /\ vaoBound' = IF call = vaoBound THEN "none" ELSE vaoBound
         /\ arrayBuffer' = IF call = arrayBuffer THEN "none" ELSE arrayBuffer
         /\ elementArrayBuffer' = IF call = elementArrayBuffer
                                    THEN "none" ELSE elementArrayBuffer
         /\ defers' = Tail(defers)
    /\ UNCHANGED <<progVars, created, activeTexture, texImage, texFilter,
                   bufferSize, attribs, linkStatus, tex2Active, programInUse,
                   samplerVal, matUniform, clearColor, histVars>>

\* the deferred calls of main run, last registered first
RunDeferred ==
    /\ pc = "unwind"
    /\ defers # <<>>
    /\ LET call == defers[Len(defers)] IN
         /\ released' = [r \in Resources |->
                           IF r \in ReleasedBy(call) THEN released[r] + 1
                                                     ELSE released[r]]
         /\ boundTexture' = [u \in 0..1 |->
                               IF boundTexture[u] = call THEN "none"
                                                         ELSE boundTexture[u]]
         /\ vaoBound' = IF call = vaoBound THEN "none" ELSE vaoBound
         /\ arrayBuffer' = IF call = arrayBuffer THEN "none" ELSE arrayBuffer
         /\ elementArrayBuffer' = IF call = elementArrayBuffer
                                    THEN "none" ELSE elementArrayBuffer
         /\ defers' = SubSeq(defers, 1, Len(defers) - 1)
    /\ UNCHANGED <<progVars, created, activeTexture, texImage, texFilter,
                   bufferSize, attribs, linkStatus, tex2Active, programInUse,
                   samplerVal, matUniform, clearColor, histVars>>

\* no deferred call is left: the process exits, with status 2 after a panic
Exit ==
    /\ pc = "unwind"
    /\ defers = <<>>
    /\ pc' = "exited"
    /\ exitCode' = IF failure = "none" THEN 0 ELSE 2
    /\ UNCHANGED <<failure, rotate, shouldClose, spinCount, modelMat,
                   projectionMat, resVars, glVars, histVars>>

Next ==
    \/ GlInit
    \/ UploadGeometry
    \/ LoadTexture1
    \/ LoadTexture2
    \/ LoadVertexShader
    \/ LoadFragmentShader
    \/ BuildProgram
    \/ ConfigureAttribs
    \/ SetSamplers
    \/ InitTransform
    \/ LoopCheck
    \/ Clear
    \/ Tick
    \/ PushModel
    \/ PushView
    \/ DrawElements
    \/ SwapBuffers
    \/ KeyCallback
    \/ CloseSignal
    \/ PollReturn
    \/ RunDeferred
    \/ Exit

Spec == Init /\ [][Next]_vars

\* ------------------------------------------------------------------- claims

LoopPcs == {"loop", "clear", "tick", "pushModel", "pushView", "draw", "swap",
            "poll"}

\* C1: once the should-close flag is set (only a quit key press or the close
\* signal inside the poll step sets it), no further draw call or buffer swap is
\* issued, the flag stays set, main is at the poll step or the loop test, and
\* from the loop test it goes straight to teardown.
C1_NoDrawAfterClose ==
    [][ /\ (shouldClose' /\ ~shouldClose) =>
              /\ pc = "poll"
              /\ pollLog' # <<>>
              /\ LET e == pollLog'[Len(pollLog')] IN
                   IsQuitPress(e) \/ e.action = "Close"
        /\ shouldClose =>
              /\ draws' = draws
              /\ swaps' = swaps
              /\ shouldClose'
              /\ pc \in {"poll", "loop", "unwind", "exited"}
              /\ pc = "loop" => pc' = "unwind" ]_vars

C1_Witness ==
    /\ pc = "exited"
    /\ exitCode = 0
    /\ draws = 2
    /\ swaps = 2
    /\ shouldClose
    /\ closeCause = "KeyQ"

\* C2: at process exit, every resource that was created has been released
\* exactly once.
C2_AllCreatedReleasedOnce ==
    pc = "exited" => \A r \in created : released[r] = 1

\* C3: a failed compile, link or image load never lets main resolve a location
\* against the program, enter the frame loop or draw.
C3_FailedStartupIsFatal ==
    (failure # "none" \/ linkStatus = "failed") =>
        /\ locationsResolved = 0
        /\ frame = 0
        /\ draws = 0

\* C4: the spin accumulator never decreases, only the tick changes it, a tick
\* with rotation disabled leaves it unchanged, a tick with rotation enabled adds
\* exactly one increment, and after N enabled ticks it is N increments, i.e.
\* N/2000 of 1.0.
C4_SpinLaw ==
    /\ [](/\ spinCount = enabledTicks * SpinIncrement
          /\ spinCount * 2000 = enabledTicks * SpinScale)
    /\ [][ /\ spinCount' >= spinCount
           /\ spinCount' # spinCount => pc = "tick"
           /\ (pc = "tick" /\ ~rotate) => spinCount' = spinCount
           /\ (pc = "tick" /\ rotate) => spinCount' = spinCount + SpinIncrement
         ]_vars

C4_Witness ==
    /\ pc = "pushModel"
    /\ frame = 3
    /\ ~tickEnabled
    /\ enabledTicks = 2
    /\ spinCount = 2 * SpinIncrement

\* C5 as stated: the model matrix pushed and drawn in the N-th enabled frame is
\* the rotation by N increments (the accumulator after its advance).
C5_ModelUsesAdvancedSpin ==
    (pc = "swap" /\ tickEnabled) =>
        lastDraw.model = Rotation(enabledTicks * SpinIncrement, ZAxis)

\* C5 amended: in a frame whose tick ran with rotation enabled, the model matrix
\* pushed and drawn is the rotation by the accumulator's value before that
\* tick's advance: N-1 increments in the N-th enabled frame, while the
\* accumulator itself already holds N increments.
C5_ModelUsesSpinBeforeAdvance ==
    tickEnabled =>
        /\ pc \in {"pushModel", "pushView", "draw", "swap", "poll"} =>
              /\ modelMat = Rotation((enabledTicks - 1) * SpinIncrement, ZAxis)
              /\ spinCount = enabledTicks * SpinIncrement
        /\ pc \in {"pushView", "draw", "swap", "poll"} =>
              pushed["model"] = Rotation((enabledTicks - 1) * SpinIncrement, ZAxis)
        /\ pc \in {"swap", "poll"} =>
              lastDraw.model = Rotation((enabledTicks - 1) * SpinIncrement, ZAxis)

C5_Witness ==
    /\ pc = "swap"
    /\ tickEnabled
    /\ enabledTicks = 2
    /\ lastDraw.model = Rotation(SpinIncrement, ZAxis)

\* C6: the poll step (and so a toggle handled in it) changes neither the
\* accumulator, the model matrix nor the frame already drawn; one toggle press
\* in the poll of iteration k leaves rotate flipped, and the tick of iteration
\* k+1 advances the accumulator exactly when the flipped value is true.
C6_ToggleTakesEffectNextTick ==
    /\ []((pc \in {"poll", "loop"} /\ TogglesIn(pollLog) = 1) =>
              rotate = ~rotAtPollStart)
    /\ [][ /\ pc = "poll" =>
                UNCHANGED <<spinCount, modelMat, pushed, lastDraw, draws, swaps>>
           /\ (pc = "tick" /\ frame > 1 /\ lastPollToggles = 1) =>
                ((spinCount' # spinCount) <=> ~rotAtPollStart)
         ]_vars

C6_Witness ==
    /\ pc = "pushModel"
    /\ frame = 2
    /\ lastPollToggles = 1
    /\ rotAtPollStart
    /\ ~tickEnabled
    /\ spinCount = SpinIncrement

\* state an event of the latest poll was delivered in, and the state it left
StateBefore(i) ==
    <<pollLog[i].rotate, pollLog[i].shouldClose, pollLog[i].spinCount>>

StateAfter(i) ==
    IF i < Len(pollLog) THEN StateBefore(i + 1)
                        ELSE <<rotate, shouldClose, spinCount>>

\* C7: two toggle-rotation presses delivered one after the other leave rotate,
\* the should-close flag and the accumulator as they were before the first.
C7_DoubleToggleRestores ==
    pc \in {"poll", "loop"} =>
        \A i \in 1..(Len(pollLog) - 1) :
            (IsTogglePress(pollLog[i]) /\ IsTogglePress(pollLog[i + 1])) =>
                StateAfter(i + 1) = StateBefore(i)

C7_Witness ==
    /\ pc = "loop"
    /\ Len(pollLog) = 2
    /\ IsTogglePress(pollLog[1])
    /\ IsTogglePress(pollLog[2])
    /\ pollLog[1].rotate = FALSE
    /\ rotate = FALSE

\* C8: the projection matrix is pushed exactly once, before the first
\* iteration, and from then on neither the local matrix, the value passed nor
\* the uniform is written again; the value is the fixed perspective matrix
\* whatever the accumulator and the rotation flag are.
C8_ProjectionPushedOnce ==
    /\ []((pc \in LoopPcs \/ frame > 0) =>
              /\ projPushes = 1
              /\ projectionMat = ProjectionMatrix
              /\ pushed["projection"] = ProjectionMatrix
              /\ matUniform["projection"] =
                     (IF linkStatus = "ok" THEN ProjectionMatrix ELSE NoMatrix))
    /\ []((pc \notin LoopPcs /\ frame = 0 /\ pc # "unwind" /\ pc # "exited") =>
              projPushes = 0)
    /\ [][ (pc \in LoopPcs) =>
              (/\ projPushes' = projPushes
               /\ projectionMat' = projectionMat
               /\ pushed'["projection"] = pushed["projection"]
               /\ matUniform'["projection"] = matUniform["projection"])
         ]_vars

C8_Witness ==
    /\ pc = "swap"
    /\ frame = 3
    /\ ~rotate
    /\ spinCount = 2 * SpinIncrement
    /\ linkStatus = "ok"
    /\ projPushes = 1
    /\ matUniform["projection"] = ProjectionMatrix

\* the calls of one iteration, in order
IterationOps ==
    <<"clear", "tick", "pushModel", "pushView", "draw", "swap", "poll">>

\* number of calls of the current iteration made when main is at position p
OpsBefore(p) ==
    CASE p = "clear" -> 0
      [] p = "tick" -> 1
      [] p = "pushModel" -> 2
      [] p = "pushView" -> 3
      [] p = "draw" -> 4
      [] p = "swap" -> 5
      [] p = "poll" -> 6
      [] OTHER -> 7

\* C9: at every position of an iteration the calls made so far are exactly the
\* prefix clear, tick, push model, push view, draw, swap, poll, each once; one
\* draw and one swap per iteration, the draw being the 4-index triangle strip;
\* the accumulator changes only in the tick, by one increment; key handlers and
\* the close signal act only inside the poll step.
C9_FrameOrder ==
    /\ []((pc \in LoopPcs /\ frame > 0) =>
              /\ ops = SubSeq(IterationOps, 1, OpsBefore(pc))
              /\ draws = IF OpsBefore(pc) >= 5 THEN frame ELSE frame - 1
              /\ swaps = IF OpsBefore(pc) >= 6 THEN frame ELSE frame - 1
              /\ draws > 0 => (lastDraw.mode = "TRIANGLE_STRIP" /\ lastDraw.count = 4))
    /\ [][ /\ spinCount' # spinCount =>
                (pc = "tick" /\ spinCount' = spinCount + SpinIncrement)
           /\ (rotate' # rotate \/ shouldClose' # shouldClose
                 \/ Len(pollLog') > Len(pollLog)) =>
                (pc = "poll" /\ pc' = "poll") ]_vars

C9_Witness ==
    /\ pc = "loop"
    /\ frame = 2
    /\ ops = IterationOps
    /\ draws = 2
    /\ swaps = 2
    /\ Len(pollLog) = 2

\* C10 as stated, for a program that linked: at every draw call unit 0 holds
\* the first texture and unit 1 the second, sampler tex1 is 0 and sampler tex2
\* is 1.
C10_UnitsAndSamplersAtDraw ==
    (draws > 0 /\ linkStatus = "ok") =>
        /\ lastDraw.unit0 = "texture1"
        /\ lastDraw.unit1 = "texture2"
        /\ samplerVal["tex1"] = 0
        /\ samplerVal["tex2"] = 1

\* C10 amended: from the second texture load to the end of the loop unit 0
\* holds the first texture and unit 1 the second, so at every draw call too;
\* sampler tex1 is 0 exactly when the program linked, and sampler tex2 is 1
\* exactly when the program linked and the linker kept tex2 active; otherwise
\* the uniform does not exist and the Uniform1i call sets nothing.
C10_UnitsFixedSamplersWhenActive ==
    /\ (pc \in LoopPcs \cup {"vertexShader", "fragmentShader", "program",
                             "attribs", "samplers", "transform"}) =>
          /\ boundTexture[0] = "texture1"
          /\ boundTexture[1] = "texture2"
    /\ draws > 0 =>
          /\ lastDraw.unit0 = "texture1"
          /\ lastDraw.unit1 = "texture2"
          /\ samplerVal["tex1"] = (IF linkStatus = "ok" THEN 0 ELSE NoSampler)
          /\ samplerVal["tex2"] =
                 (IF linkStatus = "ok" /\ tex2Active THEN 1 ELSE NoSampler)

C10_Witness ==
    /\ pc = "swap"
    /\ draws = 2
    /\ linkStatus = "ok"
    /\ tex2Active
    /\ lastDraw.unit0 = "texture1"
    /\ lastDraw.unit1 = "texture2"
    /\ samplerVal["tex2"] = 1

\* C11: the aspect ratio given to the perspective projection is the ratio of
\* the window's logical size, aspect x 480 = 640, with field of view 45, near
\* plane 1 and far plane 10.
C11_AspectIsWindowRatio ==
    projectionMat # NoMatrix =>
        /\ projectionMat.kind = "perspective"
        /\ projectionMat.arg[1] = 45
        /\ projectionMat.arg[2] * WindowHeight = WindowWidth
        /\ projectionMat.arg[3] = 1
        /\ projectionMat.arg[4] = 10

LinearFilter == [min |-> "linear", mag |-> "linear"]

\* C12: each pair of filter calls lands on the texture it follows: a texture
\* has linear min/mag filters exactly when its image was loaded, the filters of
\* the default texture (no texture bound) are never touched, the first texture
\* sits on unit 0 and the second on unit 1 from its load on, and once startup
\* is over both textures have linear filters.
C12_FiltersOnOwnTexture ==
    /\ \A t \in Textures :
          texFilter[t] = (IF t \in texImage THEN LinearFilter ELSE DefaultFilter)
    /\ texFilter["none"] = DefaultFilter
    /\ pc = "texture2" =>
          /\ activeTexture = 0
          /\ boundTexture[activeTexture] = "texture1"
          /\ texFilter["texture1"] = LinearFilter
    /\ pc = "vertexShader" =>
          /\ activeTexture = 1
          /\ boundTexture[activeTexture] = "texture2"
    /\ (pc \in LoopPcs \/ frame > 0) =>
          /\ texFilter["texture1"] = LinearFilter
          /\ texFilter["texture2"] = LinearFilter

C12_Witness ==
    /\ pc = "loop"
    /\ frame = 0
    /\ activeTexture = 1
    /\ boundTexture = [u \in 0..1 |-> IF u = 0 THEN "texture1" ELSE "texture2"]
    /\ texFilter["texture1"] = LinearFilter
    /\ texFilter["texture2"] = LinearFilter

\* positions of main between the geometry upload and the loop
SetupPcsAfterGeometry ==
    {"texture1", "texture2", "vertexShader", "fragmentShader", "program",
     "attribs", "samplers", "transform"}

\* C13: from the geometry upload to the end of the loop the vertex array is
\* bound, the vertex buffer is on ARRAY_BUFFER and the index buffer on
\* ELEMENT_ARRAY_BUFFER, with 4 x 16 = 64 and 4 x 2 = 8 bytes uploaded; an
\* attribute that is configured and enabled was configured under that vertex
\* array and vertex buffer with 2 components, stride 16 and offset 0
\* (position) or 8 (textureCoord); both are configured once the attribute step
\* is past and the program linked; every draw call sees the same vertex array
\* and the index buffer.
C13_GeometryLayout ==
    /\ pc \in SetupPcsAfterGeometry \cup LoopPcs =>
          /\ vaoBound = "vao"
          /\ arrayBuffer = "vbo"
          /\ elementArrayBuffer = "elementBuffer"
          /\ bufferSize["vbo"] = 4 * 16
          /\ bufferSize["vbo"] = 64
          /\ bufferSize["elementBuffer"] = 4 * 2
          /\ bufferSize["elementBuffer"] = 8
    /\ \A a \in DOMAIN attribs :
          attribs[a].enabled =>
              /\ attribs[a].vao = "vao"
              /\ attribs[a].buffer = "vbo"
              /\ attribs[a].size = 2
              /\ attribs[a].stride = 16
              /\ attribs[a].offset = (IF a = "position" THEN 0 ELSE 8)
    /\ (linkStatus = "ok" /\ pc \in {"samplers", "transform"} \cup LoopPcs) =>
          \A a \in DOMAIN attribs : attribs[a].enabled
    /\ draws > 0 =>
          /\ lastDraw.vao = "vao"
          /\ lastDraw.elements = "elementBuffer"

C13_Witness ==
    /\ pc = "swap"
    /\ draws = 2
    /\ linkStatus = "ok"
    /\ attribs["position"].enabled
    /\ attribs["textureCoord"].enabled
    /\ attribs["textureCoord"].offset = 8
    /\ lastDraw.vao = "vao"
    /\ lastDraw.elements = "elementBuffer"

\* the GPU objects and the context, last acquired first
ReverseAcquisition ==
    <<"shaderProgram", "fragmentShader", "vertexShader", "texture2",
      "texture1", "elementBuffer", "vbo", "vao", "glfw">>

\* C14: on clean shutdown a resource is released only after every resource
\* acquired later than it was released once: the program before its shader
\* units, every GPU object before GLFW is terminated; the window goes with
\* GLFW; after the termination nothing is released any more; at exit each was
\* released exactly once.
C14_TeardownInReverseOrder ==
    /\ []((failure = "none" /\ pc \in {"unwind", "exited"}) =>
              /\ \A j \in 1..Len(ReverseAcquisition) :
                    released[ReverseAcquisition[j]] > 0 =>
                        \A i \in 1..j : released[ReverseAcquisition[i]] = 1
              /\ released["window"] = released["glfw"]
              /\ pc = "exited" => \A r \in Resources : released[r] = 1)
    /\ []((failure = "none" /\ pc \notin {"unwind", "exited"}) =>
              \A r \in Resources : released[r] = 0)
    /\ [][ (failure = "none" /\ released["glfw"] > 0) => released' = released
         ]_vars

C14_Witness ==
    /\ failure = "none"
    /\ pc = "unwind"
    /\ exitCode = -1
    /\ draws = 1
    /\ released["shaderProgram"] = 1
    /\ released["fragmentShader"] = 1
    /\ released["vertexShader"] = 1
    /\ released["texture2"] = 1
    /\ released["texture1"] = 0
    /\ released["glfw"] = 0

\* a logged event delivered to keyCallback (not the close signal)
IsKeyEvent(e) == e.action \in Actions

\* C15: for every key event of a poll, with the state it was delivered in and
\* the state it left: the accumulator is never changed; an event that is not a
\* press of Escape, Q or R changes nothing; a press of Escape or Q sets the
\* should-close flag and leaves rotate alone; a press of R flips rotate and
\* leaves the should-close flag alone.
C15_OnlyPressOfBoundKeys ==
    pc \in {"poll", "loop"} =>
        \A i \in 1..Len(pollLog) :
            IsKeyEvent(pollLog[i]) =>
                LET before == StateBefore(i)
                    after == StateAfter(i)
                    e == pollLog[i]
                IN  /\ after[3] = before[3]
                    /\ (~IsQuitPress(e) /\ ~IsTogglePress(e)) => after = before
                    /\ IsQuitPress(e) => (after[1] = before[1] /\ after[2] = TRUE)
                    /\ IsTogglePress(e) =>
                          (after[2] = before[2] /\ after[1] = ~before[1])

C15_Witness ==
    /\ pc = "loop"
    /\ frame = 1
    /\ Len(pollLog) = 2
    /\ pollLog[1].key = "KeyR"
    /\ pollLog[1].action = "Release"
    /\ pollLog[2].key = "KeyEscape"
    /\ pollLog[2].action = "Repeat"
    /\ rotate
    /\ ~shouldClose

\* the model matrix last computed by an enabled tick: the identity before the
\* first one
LastEnabledModel ==
    IF enabledTicks = 0 THEN Identity
                        ELSE Rotation((enabledTicks - 1) * SpinIncrement, ZAxis)

\* C16: in the loop modelMat is always the matrix the last enabled tick
\* computed (the identity before the first); a frame whose tick ran with
\* rotation disabled pushes and draws that same matrix again, and its tick
\* changes neither the matrix nor the accumulator; an enabled tick computes the
\* model from the accumulator as the last enabled tick left it, so from one
\* computed rotation to the next the angle grows by exactly one increment,
\* however many disabled frames lie between.
C16_ModelHeldAcrossPause ==
    /\ [](pc \in LoopPcs =>
              /\ modelMat = LastEnabledModel
              /\ (~tickEnabled /\ pc \in {"pushView", "draw", "swap", "poll"}) =>
                    pushed["model"] = LastEnabledModel
              /\ (~tickEnabled /\ pc \in {"swap", "poll"}) =>
                    lastDraw.model = LastEnabledModel)
    /\ [][ /\ (pc = "tick" /\ ~rotate) =>
                  (modelMat' = modelMat /\ spinCount' = spinCount)
           /\ (pc = "tick" /\ rotate) =>
                  modelMat' = Rotation(spinCount, ZAxis)
           /\ (pc = "tick" /\ rotate /\ modelMat.kind = "rotation") =>
                  modelMat'.arg[1] - modelMat.arg[1] = SpinIncrement
           /\ (pc = "pushModel" /\ ~tickEnabled /\ frame > 1) =>
                  pushed'["model"] = pushed["model"]
         ]_vars

C16_Witness ==
    /\ pc = "swap"
    /\ frame = 3
    /\ tickEnabled
    /\ enabledTicks = 2
    /\ lastPollToggles = 1
    /\ lastDraw.model = Rotation(SpinIncrement, ZAxis)
    /\ spinCount = 2 * SpinIncrement

====
